---- MODULE Spec2Model ----
(***************************************************************************)
(* The plate metadata engine of src/src/App.js (WellPlateSelector).        *)
(*                                                                         *)
(* JavaScript values are represented as follows.                           *)
(*   string   a sequence of one-character strings ("A1" is <<"A","1">>),   *)
(*            so that joining on "," and splitting on "," are computed     *)
(*   number   <<n>> for the integer n, <<>> for NaN                        *)
(*   object   [order |-> the keys as Object.keys lists them,               *)
(*             at    |-> the value under each key]                         *)
(* A plate holds a reference into heap, where its metadata object lives:   *)
(* applyBulkUpdate and clearField write into that object in place.         *)
(***************************************************************************)
EXTENDS Integers, Sequences, FiniteSets, TLC

VARIABLES plates, heap, currentPlateIndex, selectedWells, displayedField,
          bulkValue, csvData, targetPlateIndex, batches, op

vars == <<plates, heap, currentPlateIndex, selectedWells, displayedField,
          bulkValue, csvData, targetPlateIndex, batches, op>>

(***************************************************************************)
(* Strings                                                                 *)
(***************************************************************************)
Digits == <<"0", "1", "2", "3", "4", "5", "6", "7", "8", "9">>

IsDigit(c) == \E d \in 1..10 : Digits[d] = c

DigitVal(c) == (CHOOSE d \in 1..10 : Digits[d] = c) - 1

IsSpace(c) == c \in {" ", "\t", "\n", "\r"}

RECURSIVE NatToStr(_)
NatToStr(n) == IF n < 10 THEN <<Digits[n + 1]>>
               ELSE NatToStr(n \div 10) \o <<Digits[(n % 10) + 1]>>

\* String(number), as a template literal or an object key writes a number
NumToStr(x) == IF x = <<>> THEN <<"N", "a", "N">>
               ELSE IF x[1] < 0 THEN <<"-">> \o NatToStr(-x[1])
               ELSE NatToStr(x[1])

StartsWith(s, p) == Len(s) >= Len(p) /\ SubSeq(s, 1, Len(p)) = p

\* s.trim()
RECURSIVE TrimLeft(_)
TrimLeft(s) == IF s # <<>> /\ IsSpace(s[1]) THEN TrimLeft(Tail(s)) ELSE s

RECURSIVE TrimRight(_)
TrimRight(s) == IF s # <<>> /\ IsSpace(s[Len(s)])
                THEN TrimRight(SubSeq(s, 1, Len(s) - 1)) ELSE s

Trim(s) == TrimRight(TrimLeft(s))

\* s.replace(p, ""): the first occurrence of p is removed
ReplaceFirst(s, p) ==
  LET hits == {i \in 1..(Len(s) - Len(p) + 1) : SubSeq(s, i, i + Len(p) - 1) = p}
  IN IF hits = {} THEN s
     ELSE LET i == CHOOSE h \in hits : \A g \in hits : h <= g
          IN SubSeq(s, 1, i - 1) \o SubSeq(s, i + Len(p), Len(s))

\* s.replace(/\s+/g, "_"): every maximal run of whitespace becomes one "_"
RECURSIVE ReplaceSpaces(_)
ReplaceSpaces(s) ==
  IF s = <<>> THEN <<>>
  ELSE IF IsSpace(s[1]) THEN <<"_">> \o ReplaceSpaces(TrimLeft(s))
  ELSE <<s[1]>> \o ReplaceSpaces(Tail(s))

\* the value of the longest prefix of s made of digits, from acc
RECURSIVE DigitsValue(_, _)
DigitsValue(s, acc) ==
  IF s # <<>> /\ IsDigit(s[1]) THEN DigitsValue(Tail(s), 10 * acc + DigitVal(s[1]))
  ELSE acc

\* parseInt(s, 10): leading whitespace, an optional sign, then digits; NaN
\* when no digit follows
parseInt(s) ==
  LET t == TrimLeft(s)
      neg == t # <<>> /\ t[1] = "-"
      u == IF t # <<>> /\ t[1] \in {"-", "+"} THEN Tail(t) ELSE t
  IN IF u = <<>> \/ ~IsDigit(u[1]) THEN <<>>
     ELSE <<(IF neg THEN -1 ELSE 1) * DigitsValue(u, 0)>>

\* array.join(sep)
RECURSIVE Join(_, _)
Join(cells, sep) ==
  IF cells = <<>> THEN <<>>
  ELSE IF Len(cells) = 1 THEN cells[1]
  ELSE cells[1] \o <<sep>> \o Join(Tail(cells), sep)

\* the pieces of s between the occurrences of sep
RECURSIVE SplitFrom(_, _, _, _)
SplitFrom(s, sep, start, i) ==
  IF i > Len(s) THEN <<SubSeq(s, start, Len(s))>>
  ELSE IF s[i] = sep
       THEN <<SubSeq(s, start, i - 1)>> \o SplitFrom(s, sep, i + 1, i + 1)
       ELSE SplitFrom(s, sep, start, i + 1)

Split(s, sep) == SplitFrom(s, sep, 1, 1)

(***************************************************************************)
(* Objects: keys in the order Object.keys lists them (canonical array      *)
(* indices first, ascending, then the other keys in insertion order)       *)
(***************************************************************************)
EmptyObj == [order |-> <<>>, at |-> <<>>]

\* TRUE; it makes TLC compute v on the spot, before the loop goes on
Computed(v) == v = v

IsArrayIndex(k) ==
  /\ k # <<>>
  /\ \A i \in 1..Len(k) : IsDigit(k[i])
  /\ (Len(k) = 1 \/ k[1] # "0")

InsertKey(order, k) ==
  IF IsArrayIndex(k)
  THEN LET n == Cardinality({i \in 1..Len(order) :
                     IsArrayIndex(order[i])
                     /\ DigitsValue(order[i], 0) < DigitsValue(k, 0)})
       IN SubSeq(order, 1, n) \o <<k>> \o SubSeq(order, n + 1, Len(order))
  ELSE Append(order, k)

HasKey(o, k) == k \in DOMAIN o.at

\* o[k] = v
ObjPut(o, k, v) ==
  IF HasKey(o, k) THEN [o EXCEPT !.at[k] = v]
  ELSE [order |-> InsertKey(o.order, k), at |-> (k :> v) @@ o.at]

\* Object.values(o)
ObjValues(o) == [i \in 1..Len(o.order) |-> o.at[o.order[i]]]

(***************************************************************************)
(* Wells                                                                   *)
(***************************************************************************)
NumRows == 8
NumCols == 12

\* String.fromCharCode(65 + row)
RowLetters == <<"A", "B", "C", "D", "E", "F", "G", "H">>

\* Object.keys(DEFAULT_METADATA)
FieldNames == <<"base_strain", "receptor", "anchor", "nanobody", "negsel",
                "dilution", "notes">>

Fields == {FieldNames[i] : i \in 1..Len(FieldNames)}

DEFAULT_METADATA == [f \in Fields |-> <<>>]

WellId(row, col) == <<RowLetters[row + 1]>> \o NatToStr(col)

\* the inner loop of initializePlateMetadata: columns col..NumCols of row
RECURSIVE InitCols(_, _, _)
InitCols(o, row, col) ==
  IF col > NumCols THEN o
  ELSE LET done == ObjPut(o, WellId(row, col), DEFAULT_METADATA)
       IN IF Computed(done) THEN InitCols(done, row, col + 1) ELSE done

RECURSIVE InitRows(_, _)
InitRows(o, row) ==
  IF row >= NumRows THEN o
  ELSE LET done == InitCols(o, row, 1)
       IN IF Computed(done) THEN InitRows(done, row + 1) ELSE done

initializePlateMetadata == InitRows(EmptyObj, 0)

\* the 96 canonical well ids, A1..A12, B1..B12, ..., H1..H12
CanonicalWells == {WellId(r, c) : r \in 0..(NumRows - 1), c \in 1..NumCols}

(***************************************************************************)
(* The plate collection                                                    *)
(***************************************************************************)
MaxPlates == 3

JsNum(n) == <<n>>
NaN == <<>>

\* a reference no object of h lives at
NewRef(h) == IF DOMAIN h = {} THEN 1
             ELSE 1 + CHOOSE r \in DOMAIN h : \A q \in DOMAIN h : q <= r

\* The first position of ps holding the metadata object that position i holds
FirstHolder(ps, i) ==
  CHOOSE j \in 1..i : /\ ps[j].metadata = ps[i].metadata
                      /\ \A k \in 1..(j - 1) : ps[k].metadata # ps[i].metadata

\* setPlates(ps), the objects of ps living in h.  A reference is an address
\* the program cannot observe: the store names each object by the first
\* position holding it and drops the objects no plate holds.
StoredPlates(ps) ==
  [i \in 1..Len(ps) |-> [ps[i] EXCEPT !.metadata = FirstHolder(ps, i)]]

StoredHeap(ps, h) ==
  [r \in {FirstHolder(ps, i) : i \in 1..Len(ps)} |-> h[ps[r].metadata]]

setPlates(ps, h) ==
  /\ plates' = StoredPlates(ps)
  /\ heap' = StoredHeap(ps, h)

\* the plates keep the ids they arrive with
Renumber_Kept(ps) == ps

\* updatedPlates.forEach((plate, index) => { plate.id = index + 1 })
Renumber(ps) == [i \in 1..Len(ps) |-> [ps[i] EXCEPT !.id = JsNum(i)]]

\* prevPlates.slice(from, to), from and to counted from 0, to excluded
Slice(ps, from, to) ==
  LET lo == IF from > Len(ps) THEN Len(ps) ELSE from
      hi == IF to > Len(ps) THEN Len(ps) ELSE to
  IN SubSeq(ps, lo + 1, hi)

\* prevPlates.filter((_, index) => index !== skip), skip counted from 0
RECURSIVE FilterIndex(_, _, _)
FilterIndex(ps, skip, index) ==
  IF ps = <<>> THEN <<>>
  ELSE (IF index # skip THEN <<Head(ps)>> ELSE <<>>)
       \o FilterIndex(Tail(ps), skip, index + 1)

\* the plate is put at the end
Splice_Last(ps, at, plate) == ps \o <<plate>>

\* updatedPlates.splice(at, 0, plate)
Splice(ps, at, plate) ==
  LET n == IF at > Len(ps) THEN Len(ps) ELSE at
  IN SubSeq(ps, 1, n) \o <<plate>> \o SubSeq(ps, n + 1, Len(ps))

\* what the program reads of the collection: each plate's id and metadata
PlateView == [i \in 1..Len(plates) |->
                [id |-> plates[i].id, metadata |-> heap[plates[i].metadata]]]

\* History only: the last handler that ran, the file it was given, and the
\* plate ids and the selection it found
Ran(name, file) ==
  [name |-> name, file |-> file,
   ids |-> [i \in 1..Len(plates) |-> plates[i].id], sel |-> selectedWells]

Did(name) == Ran(name, "")

(***************************************************************************)
(* The state after the component has mounted: one plate with default       *)
(* metadata                                                                *)
(***************************************************************************)
Init ==
  /\ plates = <<[id |-> JsNum(1), metadata |-> 1]>>
  /\ heap = (1 :> initializePlateMetadata)
  /\ currentPlateIndex = 0
  /\ selectedWells = {}
  /\ displayedField = "base_strain"
  /\ bulkValue = <<>>
  /\ csvData = <<>>
  /\ targetPlateIndex = 0
  /\ batches = <<>>
  /\ op = [name |-> "mount", file |-> "", ids |-> <<>>, sel |-> {}]

(***************************************************************************)
(* The inputs the user gives                                               *)
(***************************************************************************)
sA1 == <<"A", "1">>
sB2 == <<"B", "2">>
sS1 == <<"S", "1">>

Selections == {{}, {sA1, sB2}}

BulkValues == {<<>>, sS1}

(***************************************************************************)
(* Selection and input fields                                              *)
(***************************************************************************)
handleSelection(sel) ==
  /\ sel \subseteq DOMAIN heap[plates[currentPlateIndex + 1].metadata].at
  /\ selectedWells' = sel
  /\ UNCHANGED batches
  /\ op' = Did("handleSelection")
  /\ UNCHANGED <<plates, heap, currentPlateIndex, displayedField, bulkValue,
                 csvData, targetPlateIndex>>

deselectAll ==
  /\ selectedWells' = {}
  /\ UNCHANGED batches
  /\ op' = Did("deselectAll")
  /\ UNCHANGED <<plates, heap, currentPlateIndex, displayedField, bulkValue,
                 csvData, targetPlateIndex>>

setDisplayedField(field) ==
  /\ displayedField' = field
  /\ UNCHANGED batches
  /\ op' = Did("setDisplayedField")
  /\ UNCHANGED <<plates, heap, currentPlateIndex, selectedWells, bulkValue,
                 csvData, targetPlateIndex>>

setBulkValue(value) ==
  /\ bulkValue' = value
  /\ UNCHANGED batches
  /\ op' = Did("setBulkValue")
  /\ UNCHANGED <<plates, heap, currentPlateIndex, selectedWells,
                 displayedField, csvData, targetPlateIndex>>

\* the options of the select are the positions of the plates
setTargetPlateIndex(index) ==
  /\ index \in 0..(Len(plates) - 1)
  /\ targetPlateIndex' = index
  /\ UNCHANGED batches
  /\ op' = Did("setTargetPlateIndex")
  /\ UNCHANGED <<plates, heap, currentPlateIndex, selectedWells,
                 displayedField, bulkValue, csvData>>

(***************************************************************************)
(* Metadata edits of the current plate                                     *)
(***************************************************************************)
\* every field of the well takes the value
WithField_EveryField(o, well, field, value) == [f \in Fields |-> value]

\* { ...metadata[well], [displayedField]: bulkValue }
WithField(o, well, field, value) ==
  IF HasKey(o, well) THEN [o.at[well] EXCEPT ![field] = value]
  ELSE (field :> value)

\* selectedWells.forEach: the wells of sel written into the object o
RECURSIVE BulkWrite(_, _, _, _)
BulkWrite(o, sel, field, value) ==
  IF sel = {} THEN o
  ELSE LET well == CHOOSE w \in sel : TRUE
       IN BulkWrite(ObjPut(o, well, WithField(o, well, field, value)),
                    sel \ {well}, field, value)

applyBulkUpdate ==
  /\ UNCHANGED batches
  /\ op' = Did("applyBulkUpdate")
  /\ IF selectedWells = {}
     THEN UNCHANGED <<plates, heap, selectedWells, bulkValue>>
     ELSE LET ref == plates[currentPlateIndex + 1].metadata
          IN /\ setPlates(plates,
                          [heap EXCEPT ![ref] = BulkWrite(heap[ref], selectedWells,
                                                          displayedField, bulkValue)])
             /\ bulkValue' = <<>>
             /\ selectedWells' = {}
  /\ UNCHANGED <<currentPlateIndex, displayedField, csvData, targetPlateIndex>>

\* the base_strain of every key reset
ClearAll_BaseStrain(o) ==
  [o EXCEPT !.at = [well \in DOMAIN o.at |->
                      [o.at[well] EXCEPT !.base_strain = <<>>]]]

\* every key of the object reset to the default record
ClearAll(o) == [o EXCEPT !.at = [well \in DOMAIN o.at |-> DEFAULT_METADATA]]

clearField ==
  /\ LET ref == plates[currentPlateIndex + 1].metadata
     IN setPlates(plates, [heap EXCEPT ![ref] = ClearAll(heap[ref])])
  /\ UNCHANGED batches
  /\ op' = Did("clearField")
  /\ UNCHANGED <<currentPlateIndex, selectedWells, displayedField, bulkValue,
                 csvData, targetPlateIndex>>

(***************************************************************************)
(* Structural operations                                                   *)
(***************************************************************************)
\* the plate is put after the last one
InsertAfter_Last(ps, index, plate) == ps \o <<plate>>

\* [...prevPlates.slice(0, index + 1), plate, ...prevPlates.slice(index + 1)]
InsertAfter(ps, index, plate) ==
  Slice(ps, 0, index + 1) \o <<plate>> \o Slice(ps, index + 1, Len(ps))

addNewPlate ==
  /\ Len(plates) < MaxPlates
  /\ LET ref == NewRef(heap)
         newPlate == [id |-> JsNum(Len(plates) + 1), metadata |-> ref]
     IN setPlates(Renumber(InsertAfter(plates, currentPlateIndex, newPlate)),
                  (ref :> initializePlateMetadata) @@ heap)
  /\ currentPlateIndex' = currentPlateIndex + 1
  /\ UNCHANGED batches
  /\ op' = Did("addNewPlate")
  /\ UNCHANGED <<selectedWells, displayedField, bulkValue, csvData,
                 targetPlateIndex>>

nextPlate ==
  /\ currentPlateIndex < Len(plates) - 1
  /\ currentPlateIndex' = currentPlateIndex + 1
  /\ selectedWells' = {}
  /\ UNCHANGED batches
  /\ op' = Did("nextPlate")
  /\ UNCHANGED <<plates, heap, displayedField, bulkValue, csvData,
                 targetPlateIndex>>

prevPlate ==
  /\ currentPlateIndex > 0
  /\ currentPlateIndex' = currentPlateIndex - 1
  /\ selectedWells' = {}
  /\ UNCHANGED batches
  /\ op' = Did("prevPlate")
  /\ UNCHANGED <<plates, heap, displayedField, bulkValue, csvData,
                 targetPlateIndex>>

\* JSON.parse(JSON.stringify(metadata)): a new object, placed at ref, with
\* the keys and values of the object at src
DeepCopy(h, src, ref) == (ref :> h[src]) @@ h

\* the copied plate holds the object of its source
CopiedRef_Shared(h, src) == src

\* the reference the copied plate holds
CopiedRef(h, src) == NewRef(h)

copyCurrentPlate ==
  /\ Len(plates) < MaxPlates
  /\ LET src == plates[currentPlateIndex + 1].metadata
         ref == CopiedRef(heap, src)
         copiedPlate == [id |-> JsNum(Len(plates) + 1), metadata |-> ref]
     IN setPlates(Renumber(InsertAfter(plates, currentPlateIndex, copiedPlate)),
                  DeepCopy(heap, src, ref))
  /\ currentPlateIndex' = currentPlateIndex + 1
  /\ selectedWells' = {}
  /\ UNCHANGED batches
  /\ op' = Did("copyCurrentPlate")
  /\ UNCHANGED <<displayedField, bulkValue, csvData, targetPlateIndex>>

\* the first plate becomes the current one
Max0_First(n) == 0

\* the index stays where it was before the plate was removed
Max0_Stays(n) == n + 1

\* Math.max(0, n)
Max0(n) == IF n > 0 THEN n ELSE 0

deleteCurrentPlate ==
  /\ IF Len(plates) = 1
     THEN UNCHANGED <<plates, heap, currentPlateIndex>>
     ELSE /\ setPlates(Renumber(FilterIndex(plates, currentPlateIndex, 0)), heap)
          /\ currentPlateIndex' = Max0(currentPlateIndex - 1)
  /\ selectedWells' = {}
  /\ UNCHANGED batches
  /\ op' = Did("deleteCurrentPlate")
  /\ UNCHANGED <<displayedField, bulkValue, csvData, targetPlateIndex>>

moveCurrentPlate ==
  /\ IF Len(plates) = 1
     THEN UNCHANGED <<plates, heap, currentPlateIndex>>
     ELSE IF targetPlateIndex < 0 \/ targetPlateIndex >= Len(plates)
     THEN UNCHANGED <<plates, heap, currentPlateIndex>>
     ELSE LET plateToMove == plates[currentPlateIndex + 1]
              rest == FilterIndex(plates, currentPlateIndex, 0)
          IN /\ setPlates(Renumber(Splice(rest, targetPlateIndex, plateToMove)),
                          heap)
             /\ currentPlateIndex' = targetPlateIndex
  /\ selectedWells' = {}
  /\ UNCHANGED batches
  /\ op' = Did("moveCurrentPlate")
  /\ UNCHANGED <<displayedField, bulkValue, csvData, targetPlateIndex>>

(***************************************************************************)
(* CSV text.  A file is the sequence of its lines (the text is the lines   *)
(* joined by "\n").  Papa.parse with skipEmptyLines splits the text on     *)
(* "\n", drops the empty lines and splits each line on ","; the values of  *)
(* the model hold no quote character.                                      *)
(***************************************************************************)
\* the lines lo..hi of the file, each split where it holds a "\n"
RECURSIVE FileLinesOf(_, _, _)
FileLinesOf(file, lo, hi) ==
  IF lo > hi THEN <<>>
  ELSE IF lo = hi THEN Split(file[lo], "\n")
  ELSE LET mid == (lo + hi) \div 2
       IN FileLinesOf(file, lo, mid) \o FileLinesOf(file, mid + 1, hi)

FileLines(file) == FileLinesOf(file, 1, Len(file))

\* Papa.parse(file, {header: false, skipEmptyLines: true}).data
PapaParse(file) ==
  LET lines == SelectSeq(FileLines(file), LAMBDA l : l # <<>>)
  IN [i \in 1..Len(lines) |-> Split(lines[i], ",")]

\* one row of Papa.parse(file, {header: true}).data: the cells under the
\* header's names
RECURSIVE RowObject(_, _, _, _)
RowObject(o, header, cells, i) ==
  IF i > Len(cells) \/ i > Len(header) THEN o
  ELSE RowObject(ObjPut(o, header[i], cells[i]), header, cells, i + 1)

\* Papa.parse(file, {header: true, skipEmptyLines: true}).data
PapaParseHeader(file) ==
  LET rows == PapaParse(file)
  IN IF rows = <<>> THEN <<>>
     ELSE [i \in 1..(Len(rows) - 1) |->
             RowObject(EmptyObj, rows[1], rows[i + 1], 1)]

\* row[key] || ""
RowGet(row, key) == IF HasKey(row, key) THEN row.at[key] ELSE <<>>

\* the names of the columns
kFromBlock == <<"f", "r", "o", "m", "_", "b", "l", "o", "c", "k">>
kWell == <<"w", "e", "l", "l">>
kBlock == <<"B", "l", "o", "c", "k">>
kEmpty == <<"e", "m", "p", "t", "y">>

FieldColumn ==
  [base_strain |-> <<"b", "a", "s", "e", "_", "s", "t", "r", "a", "i", "n">>,
   receptor |-> <<"r", "e", "c", "e", "p", "t", "o", "r">>,
   anchor |-> <<"a", "n", "c", "h", "o", "r">>,
   nanobody |-> <<"n", "a", "n", "o", "b", "o", "d", "y">>,
   negsel |-> <<"n", "e", "g", "s", "e", "l">>,
   dilution |-> <<"d", "i", "l", "u", "t", "i", "o", "n">>,
   notes |-> <<"n", "o", "t", "e", "s">>]

(***************************************************************************)
(* exportCSV                                                               *)
(***************************************************************************)
csvHeader ==
  Join(<<kFromBlock, kWell>> \o [i \in 1..Len(FieldNames) |-> FieldColumn[FieldNames[i]]],
       ",")

\* Object.values(data).every((val) => val === "")
isEmptyRow(data) == \A f \in DOMAIN data : data[f] = <<>>

\* the line of one well
csvRow(id, well, data) ==
  IF isEmptyRow(data)
  THEN Join(<<NumToStr(id), well>> \o [i \in 1..Len(FieldNames) |-> kEmpty], ",")
  ELSE Join(<<NumToStr(id), well>> \o [i \in 1..Len(FieldNames) |-> data[FieldNames[i]]],
            ",")

\* the lines of one plate, in the order of Object.keys(plate.metadata)
plateRows(plate) ==
  [i \in 1..Len(plate.metadata.order) |->
     csvRow(plate.id, plate.metadata.order[i],
            plate.metadata.at[plate.metadata.order[i]])]

RECURSIVE csvRows(_)
csvRows(view) ==
  IF view = <<>> THEN <<>>
  ELSE plateRows(Head(view)) \o csvRows(Tail(view))

\* csvHeader + csvRows.join("\n"), as lines
csvContent(view) == <<csvHeader>> \o csvRows(view)

exportCSV ==
  /\ UNCHANGED batches
  /\ op' = Did("exportCSV")
  /\ UNCHANGED <<plates, heap, currentPlateIndex, selectedWells, displayedField,
                 bulkValue, csvData, targetPlateIndex>>

(***************************************************************************)
(* exportPDF: an async function; each call is a batch that runs from one   *)
(* await to the next                                                       *)
(***************************************************************************)
MaxBatches == 2

\* the render reads plates[currentPlateIndex].metadata: with an index that
\* designates no plate it throws, and the component is removed from the
\* page for good
Mounted == currentPlateIndex < Len(plates)

\* document.querySelector(".well-plate"): the plate is on the page when the
\* component is
ElementFound == Mounted

\* setCurrentPlateIndex(index) from the batch: a state update of a
\* component that is no longer on the page is dropped
BatchSetsIndex(index) ==
  currentPlateIndex' = IF Mounted THEN index ELSE currentPlateIndex

\* setDisplayedField(field) from the batch
BatchSetsField(field) ==
  displayedField' = IF Mounted THEN field ELSE displayedField

\* the call up to its first await: the closure keeps the plates of the
\* render the click came from
exportPDF ==
  /\ Len(batches) < MaxBatches
  /\ LET captured == PlateView
     IN IF captured = <<>>
        THEN UNCHANGED <<batches, currentPlateIndex>>
        ELSE /\ batches' = Append(batches,
                                  [pc |-> "plate",
                                   originalPlateIndex |-> currentPlateIndex,
                                   plates |-> captured,
                                   plateIndex |-> 0,
                                   field |-> 0])
             /\ currentPlateIndex' = 0
  /\ op' = Did("exportPDF")
  /\ UNCHANGED <<plates, heap, selectedWells, displayedField, bulkValue, csvData,
                 targetPlateIndex>>

\* the batches without the k-th
Finished(k) == [i \in 1..(Len(batches) - 1) |-> IF i < k THEN batches[i] ELSE batches[i + 1]]

\* from the end of the body of the field loop to the next await, or to the
\* end of the function
NextField(k) ==
  LET batch == batches[k]
  IN IF batch.field < Len(FieldNames)
     THEN /\ BatchSetsField(FieldNames[batch.field + 1])
          /\ batches' = [batches EXCEPT ![k].pc = "field", ![k].field = batch.field + 1]
          /\ UNCHANGED currentPlateIndex
     ELSE IF batch.plateIndex + 1 < Len(batch.plates)
     THEN /\ BatchSetsIndex(batch.plateIndex + 1)
          /\ batches' = [batches EXCEPT ![k].pc = "plate",
                                        ![k].plateIndex = batch.plateIndex + 1,
                                        ![k].field = 0]
          /\ UNCHANGED displayedField
     ELSE /\ BatchSetsIndex(batch.originalPlateIndex)
          /\ batches' = Finished(k)
          /\ UNCHANGED displayedField

\* after the await that follows setCurrentPlateIndex(parseInt(plateIndex))
resumePlate(k) ==
  /\ batches[k].pc = "plate"
  /\ BatchSetsField(FieldNames[1])
  /\ batches' = [batches EXCEPT ![k].pc = "field", ![k].field = 1]
  /\ op' = Did("resumePlate")
  /\ UNCHANGED <<plates, heap, currentPlateIndex, selectedWells, bulkValue, csvData,
                 targetPlateIndex>>

\* after the await that follows setDisplayedField(field)
resumeField(k) ==
  /\ batches[k].pc = "field"
  /\ IF ElementFound
     THEN /\ batches' = [batches EXCEPT ![k].pc = "canvas"]
          /\ UNCHANGED <<currentPlateIndex, displayedField>>
     ELSE NextField(k)
  /\ op' = Did("resumeField")
  /\ UNCHANGED <<plates, heap, selectedWells, bulkValue, csvData, targetPlateIndex>>

\* after await html2canvas(plateElement, ...)
resumeCanvas(k) ==
  /\ batches[k].pc = "canvas"
  /\ NextField(k)
  /\ op' = Did("resumeCanvas")
  /\ UNCHANGED <<plates, heap, selectedWells, bulkValue, csvData, targetPlateIndex>>

\* the event loop runs one of the continuations that wait
Resume ==
  \E k \in 1..Len(batches) : resumePlate(k) \/ resumeField(k) \/ resumeCanvas(k)

(***************************************************************************)
(* handleFileUpload                                                        *)
(***************************************************************************)
\* the record the old format branch stores for a row
LegacyWell(row) == [f \in Fields |-> RowGet(row, FieldColumn[f])]

\* the body of result.data.forEach in the old format branch
LegacyRow(uploadedPlates, row) ==
  LET plateId == parseInt(RowGet(row, kFromBlock))
      wellId == RowGet(row, kWell)
      key == NumToStr(plateId)
      started == IF HasKey(uploadedPlates, key) THEN uploadedPlates
                 ELSE ObjPut(uploadedPlates, key, initializePlateMetadata)
  IN IF plateId = NaN \/ plateId = JsNum(0) \/ wellId = <<>>
     THEN uploadedPlates
     ELSE ObjPut(started, key, ObjPut(started.at[key], wellId, LegacyWell(row)))

\* result.data.forEach over the rows lo..hi, in order
RECURSIVE LegacyRows(_, _, _, _)
LegacyRows(uploadedPlates, rows, lo, hi) ==
  IF lo > hi THEN uploadedPlates
  ELSE IF lo = hi THEN LegacyRow(uploadedPlates, rows[lo])
  ELSE LET mid == (lo + hi) \div 2
           done == LegacyRows(uploadedPlates, rows, lo, mid)
       IN IF Computed(done) THEN LegacyRows(done, rows, mid + 1, hi) ELSE done

\* Object.keys(uploadedPlates).map((id) => ({id: parseInt(id, 10), metadata}))
LegacyPlates(rows) ==
  LET uploadedPlates == LegacyRows(EmptyObj, rows, 1, Len(rows))
  IN [i \in 1..Len(uploadedPlates.order) |->
        [id |-> parseInt(uploadedPlates.order[i]),
         metadata |-> uploadedPlates.at[uploadedPlates.order[i]]]]

\* the cell as the file has it
LayoutCell_Untrimmed(row, col) == IF col + 1 <= Len(row) THEN row[col + 1] ELSE <<>>

\* row[col] ? row[col].trim() : ""
LayoutCell(row, col) == IF col + 1 <= Len(row) THEN Trim(row[col + 1]) ELSE <<>>

\* for (let col = 1; col <= 12; col++) of the new format branch
RECURSIVE LayoutCols(_, _, _, _)
LayoutCols(o, rowLabel, row, col) ==
  IF col > NumCols THEN o
  ELSE LayoutCols(
         ObjPut(o, rowLabel \o NatToStr(col),
                [DEFAULT_METADATA EXCEPT !.base_strain = LayoutCell(row, col)]),
         rowLabel, row, col + 1)

IsRowLabel(cell) == \E r \in 1..Len(RowLetters) : cell = <<RowLetters[r]>>

\* the body of result.data.forEach in the new format branch; acc holds
\* newPlates, currentPlate and whether a plate is under construction
LayoutRow(acc, row) ==
  IF row[1] # <<>> /\ StartsWith(row[1], kBlock)
  THEN [newPlates |-> IF acc.open THEN Append(acc.newPlates, acc.currentPlate)
                      ELSE acc.newPlates,
        currentPlate |-> [id |-> parseInt(ReplaceFirst(row[1], kBlock \o <<" ">>)),
                          metadata |-> initializePlateMetadata],
        open |-> TRUE]
  ELSE IF acc.open /\ IsRowLabel(row[1])
  THEN [acc EXCEPT !.currentPlate.metadata =
          LayoutCols(acc.currentPlate.metadata, row[1], row, 1)]
  ELSE acc

\* result.data.forEach over the rows lo..hi, in order
RECURSIVE LayoutRows(_, _, _, _)
LayoutRows(acc, rows, lo, hi) ==
  IF lo > hi THEN acc
  ELSE IF lo = hi THEN LayoutRow(acc, rows[lo])
  ELSE LET mid == (lo + hi) \div 2
           done == LayoutRows(acc, rows, lo, mid)
       IN IF Computed(done) THEN LayoutRows(done, rows, mid + 1, hi) ELSE done

LayoutPlates(rows) ==
  LET acc == LayoutRows([newPlates |-> <<>>, currentPlate |-> <<>>, open |-> FALSE],
                        rows, 1, Len(rows))
  IN IF acc.open THEN Append(acc.newPlates, acc.currentPlate) ELSE acc.newPlates

\* firstRow && firstRow.includes("from_block")
isOldFormat(file) ==
  LET data == PapaParse(file)
  IN data # <<>> /\ \E c \in 1..Len(data[1]) : data[1][c] = kFromBlock

\* Object.values(plate.metadata).some((wellData) =>
\*   Object.values(wellData).some((val) => val !== ""))
HasData(plate) ==
  \E well \in DOMAIN plate.metadata.at :
    \E f \in DOMAIN plate.metadata.at[well] : plate.metadata.at[well][f] # <<>>

\* newPlates of the complete callback, before the filter
ParsedPlates(file) ==
  IF isOldFormat(file) THEN LegacyPlates(PapaParseHeader(file))
  ELSE LayoutPlates(PapaParse(file))

(***************************************************************************)
(* The files the user uploads as plate metadata                            *)
(***************************************************************************)
sS2 == <<"S", "2">>
sS3 == <<"S", "3">>
sZ9 == <<"Z", "9">>

LegacyLine(plate, well, base_strain, notes) ==
  Join(<<plate, well, base_strain, <<>>, <<>>, <<>>, <<>>, <<>>, notes>>, ",")

\* old format: plates 2 and 5, a well id off the grid, a plate with no
\* data, a row with no plate id and a row with no well id
LegacyFile ==
  <<csvHeader,
    LegacyLine(<<"2">>, sA1, sS1, <<"o", "k">>),
    LegacyLine(<<"5">>, sZ9, sS2, <<>>),
    LegacyLine(<<"3">>, sA1, <<>>, <<>>),
    LegacyLine(<<>>, sA1, sS1, <<>>),
    LegacyLine(<<"7">>, <<>>, sS1, <<>>)>>

\* new format: three blocks with different wells
LayoutFile ==
  <<kBlock \o <<" ", "1">>,
    Join(<<<<"A">>, sS1, sS2>>, ","),
    kBlock \o <<" ", "2">>,
    Join(<<<<"A">>, sS2, sS3>>, ","),
    kBlock \o <<" ", "3">>,
    Join(<<<<"B">>, <<" ">> \o sS1>>, ",")>>

\* new format: block 2 with data, block 4 without
SparseLayoutFile ==
  <<Join(<<<<"A">>, sS1>>, ","),
    kBlock \o <<" ", "2">>,
    Join(<<<<"H">>, sS1>>, ","),
    Join(<<<<"x">>, sS1>>, ","),
    kBlock \o <<" ", "4">>>>

\* neither a from_block header nor a Block marker
OtherFile == <<Join(<<<<"x">>, <<"y">>>>, ",")>>

sStrainX == <<"S", "t", "r", "a", "i", "n", "X">>

\* old format: the single row 1,A1,StrainX,,,,,,
SingleRowFile == <<csvHeader, LegacyLine(<<"1">>, sA1, sStrainX, <<>>)>>

\* old format: two rows for the same well of plate 3 and a row of plate 0
PlateZeroFile ==
  <<csvHeader,
    LegacyLine(<<"3">>, sA1, sS1, <<>>),
    LegacyLine(<<"3">>, sA1, sS2, <<"o", "k">>),
    LegacyLine(<<"0">>, sB2, sS1, <<>>)>>

\* new format: Block 2 followed by the row A,S1,S2,...,S12
TwelveStrainsFile ==
  <<kBlock \o <<" ", "2">>,
    Join(<<<<"A">>>> \o [n \in 1..NumCols |-> <<"S">> \o NatToStr(n)], ",")>>

SampleFiles ==
  [legacy |-> LegacyFile, layout |-> LayoutFile, sparse |-> SparseLayoutFile,
   other |-> OtherFile, single |-> SingleRowFile, zero |-> PlateZeroFile,
   twelve |-> TwelveStrainsFile]

\* "spots" is the file exportCSV saves in the current state
FileNames == DOMAIN SampleFiles \cup {"spots"}

\* what the sample files parse to, computed once
ParsedSamples == [name \in DOMAIN SampleFiles |-> ParsedPlates(SampleFiles[name])]

ParsedFile(name) ==
  IF name = "spots" THEN ParsedPlates(csvContent(PlateView)) ELSE ParsedSamples[name]

\* the collection setPlates(newPlates) stores: plate i holds object i
FreshPlates(newPlates) ==
  [i \in 1..Len(newPlates) |-> [id |-> newPlates[i].id, metadata |-> i]]

FreshHeap(newPlates) == [i \in 1..Len(newPlates) |-> newPlates[i].metadata]

handleFileUpload(name) ==
  /\ LET newPlates == SelectSeq(ParsedFile(name), HasData)
     IN IF Len(newPlates) > 0
        THEN /\ setPlates(FreshPlates(newPlates), FreshHeap(newPlates))
             /\ currentPlateIndex' = 0
        ELSE UNCHANGED <<plates, heap, currentPlateIndex>>
  /\ UNCHANGED batches
  /\ op' = Ran("handleFileUpload", name)
  /\ UNCHANGED <<selectedWells, displayedField, bulkValue, csvData,
                 targetPlateIndex>>

(***************************************************************************)
(* handleCsvUpload: the reference table                                    *)
(***************************************************************************)
\* header.trim().replace(/\s+/g, "_")
NormalizeHeader(header) == ReplaceSpaces(Trim(header))

\* originalHeaders.map with headerCount, from header i on
RECURSIVE UniqueHeaders(_, _, _)
UniqueHeaders(headerCount, headers, i) ==
  IF i > Len(headers) THEN <<>>
  ELSE LET header == headers[i]
       IN IF HasKey(headerCount, header)
          THEN LET n == headerCount.at[header] + 1
               IN <<header \o <<"_">> \o NatToStr(n)>>
                  \o UniqueHeaders(ObjPut(headerCount, header, n), headers, i + 1)
          ELSE <<header>> \o UniqueHeaders(ObjPut(headerCount, header, 1), headers, i + 1)

\* uniqueHeaders.forEach((key, index) => { rowData[key] = row[index] || "" })
RECURSIVE RowData(_, _, _, _)
RowData(o, keys, row, i) ==
  IF i > Len(keys) THEN o
  ELSE RowData(ObjPut(o, keys[i], IF i <= Len(row) THEN row[i] ELSE <<>>),
               keys, row, i + 1)

\* Object.values(row).some((val) => val !== "")
RowHasData(row) == \E k \in DOMAIN row.at : row.at[k] # <<>>

\* rawData.slice(1)
DataRows(rawData) == SubSeq(rawData, 2, Len(rawData))

cleanedData(rawData) ==
  LET originalHeaders == [i \in 1..Len(rawData[2]) |-> NormalizeHeader(rawData[2][i])]
      uniqueHeaders == UniqueHeaders(EmptyObj, originalHeaders, 1)
      rows == DataRows(rawData)
  IN SelectSeq([i \in 1..Len(rows) |-> RowData(EmptyObj, uniqueHeaders, rows[i], 1)],
               RowHasData)

kStrainName == <<"S", "t", "r", "a", "i", "n", "_", "N", "a", "m", "e">>
kConstruct == <<"C", "o", "n", "s", "t", "r", "u", "c", "t", "_">>
kConstruct1 == kConstruct \o <<"1">>
kConstruct2 == kConstruct \o <<"2">>
kConstruct3 == kConstruct \o <<"3">>

\* a title row, the header row, two rows for S1 and a short row for S2
PlasmidFile ==
  <<<<"N", "P">>,
    Join(<<kStrainName, kConstruct1, kConstruct2, kConstruct3>>, ","),
    Join(<<sS1, <<"N">>, <<"A">>, <<"R">>>>, ","),
    Join(<<sS1, <<"n">>, <<"a">>, <<"r">>>>, ","),
    Join(<<sS2, <<"N">>>>, ",")>>

\* a file of one row
TitleOnlyFile == <<<<"N", "P">>>>

ReferenceFiles == [plasmids |-> PlasmidFile, title |-> TitleOnlyFile]

\* header tokens: X, X_2, "X 2" and Y
HeaderTokens == {<<"X">>, <<"X", "_", "2">>, <<"X", " ", "2">>, <<"Y">>}

MaxHeaders == 3

\* the header rows of one to MaxHeaders tokens
HeaderRows ==
  UNION {[1..n -> HeaderTokens] : n \in 1..MaxHeaders}

\* a title row, the header row and a row with the cells 1, 2, ...
HeaderFile(headers) ==
  <<<<"N", "P">>,
    Join(headers, ","),
    Join([i \in 1..Len(headers) |-> NatToStr(i)], ",")>>

HeaderNames == {ToString(headers) : headers \in HeaderRows}

HeadersNamed(name) == CHOOSE headers \in HeaderRows : ToString(headers) = name

ReferenceFile(name) ==
  IF name \in DOMAIN ReferenceFiles THEN ReferenceFiles[name]
  ELSE HeaderFile(HeadersNamed(name))

handleCsvUpload(name) ==
  /\ LET rawData == PapaParse(ReferenceFile(name))
     IN IF Len(rawData) < 2 THEN UNCHANGED csvData
        ELSE csvData' = cleanedData(rawData)
  /\ UNCHANGED batches
  /\ op' = Ran("handleCsvUpload", name)
  /\ UNCHANGED <<plates, heap, currentPlateIndex, selectedWells, displayedField,
                 bulkValue, targetPlateIndex>>

(***************************************************************************)
(* searchStrainByNumber: the strain join                                   *)
(***************************************************************************)
\* the position of the last row of that strain
FindRow_Last(table, strainNumber) ==
  LET hits == {i \in 1..Len(table) :
                 HasKey(table[i], kStrainName)
                 /\ table[i].at[kStrainName] = strainNumber}
  IN IF hits = {} THEN 0 ELSE CHOOSE i \in hits : \A j \in hits : i >= j

\* csvData.find((row) => row["Strain_Name"] === strainNumber): the position
\* of the first such row, 0 when there is none
FindRow(table, strainNumber) ==
  LET hits == {i \in 1..Len(table) :
                 HasKey(table[i], kStrainName)
                 /\ table[i].at[kStrainName] = strainNumber}
  IN IF hits = {} THEN 0 ELSE CHOOSE i \in hits : \A j \in hits : i <= j

\* the strain number is written into the notes as well
JoinedWell_Noted(wellMetadata, table) ==
  [wellMetadata EXCEPT !.notes = wellMetadata.base_strain]

\* the record a well ends with
JoinedWell(wellMetadata, table) ==
  LET strainNumber == wellMetadata.base_strain
      found == FindRow(table, strainNumber)
  IN IF strainNumber = <<>> \/ found = 0 THEN wellMetadata
     ELSE [wellMetadata EXCEPT !.negsel = RowGet(table[found], kConstruct1),
                               !.anchor = RowGet(table[found], kConstruct2),
                               !.receptor = RowGet(table[found], kConstruct3)]

\* updatedMetadata of one plate
JoinedMetadata(o, table) ==
  [o EXCEPT !.at = [well \in DOMAIN o.at |-> JoinedWell(o.at[well], table)]]

searchStrainByNumber ==
  /\ setPlates([i \in 1..Len(plates) |-> [plates[i] EXCEPT !.metadata = i]],
               [i \in 1..Len(plates) |->
                  JoinedMetadata(heap[plates[i].metadata], csvData)])
  /\ UNCHANGED batches
  /\ op' = Did("searchStrainByNumber")
  /\ UNCHANGED <<currentPlateIndex, selectedWells, displayedField, bulkValue,
                 csvData, targetPlateIndex>>

(***************************************************************************)
(* The program: every handler, with every input                            *)
(***************************************************************************)
Select == \E sel \in Selections : handleSelection(sel)

SetField(fields) == \E field \in fields : setDisplayedField(field)

SetBulk == \E value \in BulkValues : setBulkValue(value)

SetTarget == \E index \in 0..MaxPlates : setTargetPlateIndex(index)

Upload(names) == \E name \in names : handleFileUpload(name)

UploadReference == \E name \in DOMAIN ReferenceFiles : handleCsvUpload(name)

Next ==
  \/ Mounted /\ Select
  \/ Mounted /\ deselectAll
  \/ Mounted /\ SetField(Fields)
  \/ Mounted /\ SetBulk
  \/ Mounted /\ SetTarget
  \/ Mounted /\ applyBulkUpdate
  \/ Mounted /\ clearField
  \/ Mounted /\ addNewPlate
  \/ Mounted /\ nextPlate
  \/ Mounted /\ prevPlate
  \/ Mounted /\ copyCurrentPlate
  \/ Mounted /\ deleteCurrentPlate
  \/ Mounted /\ moveCurrentPlate
  \/ Mounted /\ Upload(FileNames)
  \/ Mounted /\ UploadReference
  \/ Mounted /\ exportCSV
  \/ Mounted /\ searchStrainByNumber
  \/ Mounted /\ exportPDF
  \/ Resume

Spec == Init /\ [][Next]_vars

(***************************************************************************)
(* The plate collection editor alone, from the initial collection          *)
(***************************************************************************)
NextStructure ==
  \/ Select
  \/ SetTarget
  \/ addNewPlate
  \/ nextPlate
  \/ prevPlate
  \/ copyCurrentPlate
  \/ deleteCurrentPlate
  \/ moveCurrentPlate

SpecStructure == Init /\ [][NextStructure]_vars

(***************************************************************************)
(* The metadata editor on a collection that grows and shrinks; no file is  *)
(* read                                                                    *)
(***************************************************************************)
ShownFields == {"base_strain", "notes"}

\* the plates the collection grows to where their metadata is edited
MaxEdited == 2

AddSome == Len(plates) < MaxEdited /\ addNewPlate

CopySome == Len(plates) < MaxEdited /\ copyCurrentPlate

NextEditor ==
  \/ Select
  \/ deselectAll
  \/ SetField(ShownFields)
  \/ SetBulk
  \/ applyBulkUpdate
  \/ clearField
  \/ AddSome
  \/ nextPlate
  \/ prevPlate
  \/ CopySome
  \/ deleteCurrentPlate

SpecEditor == Init /\ [][NextEditor]_vars

(***************************************************************************)
(* Copies of plates and everything that writes metadata afterwards         *)
(***************************************************************************)
NextCopy ==
  \/ Select
  \/ SetBulk
  \/ applyBulkUpdate
  \/ clearField
  \/ AddSome
  \/ nextPlate
  \/ prevPlate
  \/ CopySome
  \/ deleteCurrentPlate
  \/ moveCurrentPlate
  \/ UploadReference
  \/ searchStrainByNumber

SpecCopy == Init /\ [][NextCopy]_vars

(***************************************************************************)
(* The import pipeline and the plate collection editor                     *)
(***************************************************************************)
NextImport ==
  \/ addNewPlate
  \/ nextPlate
  \/ prevPlate
  \/ copyCurrentPlate
  \/ deleteCurrentPlate
  \/ moveCurrentPlate
  \/ Upload({"legacy", "layout", "sparse", "other"})

SpecImport == Init /\ [][NextImport]_vars

(***************************************************************************)
(* Export and the import of what was exported                              *)
(***************************************************************************)
NextRoundTrip ==
  \/ Select
  \/ SetBulk
  \/ applyBulkUpdate
  \/ AddSome
  \/ exportCSV
  \/ Upload({"spots"})

SpecRoundTrip == Init /\ [][NextRoundTrip]_vars

(***************************************************************************)
(* The strain join on imported plates                                      *)
(***************************************************************************)
NextJoin ==
  \/ Upload({"legacy", "layout"})
  \/ UploadReference
  \/ searchStrainByNumber
  \/ nextPlate
  \/ prevPlate
  \/ copyCurrentPlate
  \/ deleteCurrentPlate

SpecJoin == Init /\ [][NextJoin]_vars

(***************************************************************************)
(* Moves among the plates of an imported layout                            *)
(***************************************************************************)
NextMove ==
  \/ Upload({"layout"})
  \/ SetTarget
  \/ nextPlate
  \/ prevPlate
  \/ deleteCurrentPlate
  \/ moveCurrentPlate

SpecMove == Init /\ [][NextMove]_vars

(***************************************************************************)
(* Clearing imported plates                                                *)
(***************************************************************************)
NextClear ==
  \/ Upload({"legacy", "layout"})
  \/ SetField(ShownFields)
  \/ clearField
  \/ nextPlate
  \/ prevPlate

SpecClear == Init /\ [][NextClear]_vars

(***************************************************************************)
(* The old format import                                                   *)
(***************************************************************************)
LegacyNames == {"legacy", "single", "zero"}

NextLegacy ==
  \/ Upload(LegacyNames)
  \/ addNewPlate
  \/ nextPlate
  \/ prevPlate
  \/ copyCurrentPlate
  \/ deleteCurrentPlate

SpecLegacy == Init /\ [][NextLegacy]_vars

(***************************************************************************)
(* The new format import                                                   *)
(***************************************************************************)
LayoutNames == {"layout", "sparse", "twelve", "other"}

NextLayout ==
  \/ Upload(LayoutNames)
  \/ addNewPlate
  \/ nextPlate
  \/ prevPlate
  \/ copyCurrentPlate
  \/ deleteCurrentPlate

SpecLayout == Init /\ [][NextLayout]_vars

(***************************************************************************)
(* Reference tables under every short header row                           *)
(***************************************************************************)
UploadHeaders == \E name \in HeaderNames : handleCsvUpload(name)

NextHeaders ==
  \/ UploadHeaders
  \/ Upload({"layout"})
  \/ searchStrainByNumber
  \/ nextPlate
  \/ prevPlate

SpecHeaders == Init /\ [][NextHeaders]_vars

(***************************************************************************)
(* The batch export among the commands that change the active plate        *)
(***************************************************************************)
NextBatch ==
  \/ exportPDF
  \/ Resume
  \/ AddSome
  \/ nextPlate
  \/ prevPlate

SpecBatch == Init /\ [][NextBatch]_vars

(***************************************************************************)
(* Every command that edits the collection or the active index, and the    *)
(* imports, with no batch export                                           *)
(***************************************************************************)
NextCommands ==
  \/ Select
  \/ SetTarget
  \/ applyBulkUpdate
  \/ clearField
  \/ AddSome
  \/ nextPlate
  \/ prevPlate
  \/ CopySome
  \/ deleteCurrentPlate
  \/ moveCurrentPlate
  \/ Upload({"twelve", "other"})
  \/ UploadReference
  \/ searchStrainByNumber

SpecCommands == Init /\ [][NextCommands]_vars

(***************************************************************************)
(* One batch export at a time among the commands that change the          *)
(* collection; the buttons and the file input exist while the component    *)
(* is on the page                                                          *)
(***************************************************************************)
NextInterleave ==
  \/ Mounted /\ batches = <<>> /\ exportPDF
  \/ Resume
  \/ Mounted /\ Upload({"twelve"})
  \/ Mounted /\ SetTarget
  \/ Mounted /\ AddSome
  \/ Mounted /\ deleteCurrentPlate
  \/ Mounted /\ moveCurrentPlate

SpecInterleave == Init /\ [][NextInterleave]_vars

(***************************************************************************)
(* Exporting what was imported                                             *)
(***************************************************************************)
NextExport ==
  \/ Upload({"legacy", "layout"})
  \/ exportCSV
  \/ addNewPlate
  \/ nextPlate
  \/ prevPlate
  \/ deleteCurrentPlate

SpecExport == Init /\ [][NextExport]_vars

(***************************************************************************)
(* Properties of the plate numbering                                       *)
(***************************************************************************)
StructuralOps ==
  {"addNewPlate", "copyCurrentPlate", "deleteCurrentPlate", "moveCurrentPlate"}

\* the ids of the plates, in order, are 1, 2, ..., length
Sequential(ids) == \A i \in 1..Len(ids) : ids[i] = JsNum(i)

PlateIds == [i \in 1..Len(plates) |-> plates[i].id]

\* the step is a delete or a move that the handler refuses
Rejected ==
  \/ op'.name = "deleteCurrentPlate" /\ Len(plates) = 1
  \/ /\ op'.name = "moveCurrentPlate"
     /\ (Len(plates) = 1 \/ targetPlateIndex \notin 0..(Len(plates) - 1))

\* the step is a structural operation that the handler carries out
Accepted == op'.name \in StructuralOps /\ ~Rejected

\* C1: from the initial collection, after any sequence of addNewPlate,
\* copyCurrentPlate, deleteCurrentPlate and moveCurrentPlate there is at
\* least one plate and the plate at position i (counted from 0) has id
\* i + 1: the ids are exactly 1..length.
C1_IdsAreOneToLength == Len(plates) >= 1 /\ Sequential(PlateIds)

\* three plates were there and the current one was deleted
C1_DeletedOfThree ==
  /\ op.name = "deleteCurrentPlate"
  /\ Len(op.ids) = 3
  /\ Len(plates) = 2

\* C2: in every reachable state, states reached by a CSV import included,
\* the wells of every plate are exactly the 96 wells A1..H12, each with a
\* seven-field record: no well is missing and no other key is present.
C2_NinetySixWells ==
  \A i \in 1..Len(PlateView) :
    /\ DOMAIN PlateView[i].metadata.at = CanonicalWells
    /\ \A well \in CanonicalWells :
         DOMAIN PlateView[i].metadata.at[well] = Fields

\* C4: whenever addNewPlate, copyCurrentPlate, deleteCurrentPlate or
\* moveCurrentPlate is invoked, in any reachable state, states reached
\* right after an import included, the plate ids are already 1..length.
C4_SequentialWhenInvoked ==
  [][op'.name \in StructuralOps => Sequential(PlateIds)]_vars

\* C4, amended: only an import can leave plate ids that are not 1..length
\* (it stores the plate numbers the file gives), and whatever the ids are
\* when addNewPlate, copyCurrentPlate, deleteCurrentPlate or
\* moveCurrentPlate is invoked, an operation that is carried out leaves
\* the ids exactly 1..length.
C4_RenumberedWhenCarriedOut ==
  [][/\ Accepted => Sequential(PlateIds')
     /\ (Sequential(PlateIds) /\ op'.name # "handleFileUpload")
          => Sequential(PlateIds')]_vars

\* the plates numbered 2 and 5 by the imported file, one of them deleted
C4_DeletedAfterImport ==
  /\ op.name = "deleteCurrentPlate"
  /\ op.ids = <<JsNum(2), JsNum(5)>>
  /\ PlateIds = <<JsNum(1)>>

\* C5: a deleteCurrentPlate on a collection of one plate, and a
\* moveCurrentPlate on a collection of one plate or with a target position
\* outside 0..length-1, changes nothing: the collection, the active index
\* and the selected wells are as before.
C5_RejectedChangesNothing ==
  [][Rejected => UNCHANGED <<plates, heap, currentPlateIndex, selectedWells>>]_vars

\* C3: for a collection with ids 1..length, exportCSV followed by the
\* import of the exported text gives as many plates, and for every plate
\* and every well the same seven values as before the export; a well that
\* was all default, exported as "empty" in seven columns, is all default
\* again.
C3_ExportThenImport ==
  [][(/\ op'.name = "handleFileUpload"
      /\ op'.file = "spots"
      /\ Sequential(PlateIds))
       => /\ Len(PlateView') = Len(PlateView)
          /\ \A i \in 1..Len(PlateView) :
               PlateView'[i].metadata.at = PlateView[i].metadata.at]_vars

(***************************************************************************)
(* Properties of the metadata                                              *)
(***************************************************************************)
\* no two plates hold the same metadata object
NoSharedMetadata ==
  \A i, j \in 1..Len(plates) : i # j => plates[i].metadata # plates[j].metadata

C7_BulkUpdateFrame ==
  [][op'.name = "applyBulkUpdate"
       => IF selectedWells = {} THEN PlateView' = PlateView
          ELSE /\ Len(PlateView') = Len(PlateView)
               /\ \A i \in 1..Len(PlateView) :
                    /\ PlateView'[i].id = PlateView[i].id
                    /\ PlateView'[i].metadata.order = PlateView[i].metadata.order
                    /\ \A well \in DOMAIN PlateView[i].metadata.at :
                         \A f \in Fields :
                           PlateView'[i].metadata.at[well][f] =
                             IF /\ i = currentPlateIndex + 1
                                /\ well \in selectedWells
                                /\ f = displayedField
                             THEN bulkValue
                             ELSE PlateView[i].metadata.at[well][f]]_vars

\* the second of two plates got its notes written after its strain, and
\* the first plate has neither
C7_WroteSecondField ==
  /\ op.name = "applyBulkUpdate"
  /\ op.sel = {sA1, sB2}
  /\ Len(plates) = 2
  /\ currentPlateIndex = 1
  /\ displayedField = "notes"
  /\ PlateView[2].metadata.at[sA1].base_strain = sS1
  /\ PlateView[2].metadata.at[sA1].notes = sS1
  /\ PlateView[1].metadata.at[sA1] = DEFAULT_METADATA

JoinedFields == {"negsel", "anchor", "receptor"}

\* C8: searchStrainByNumber changes no field but negsel, anchor and
\* receptor: base_strain, nanobody, dilution and notes of every well of
\* every plate, the ids and the order of the plates, and the reference
\* table are after the join what they were before.
C8_JoinFrame ==
  [][op'.name = "searchStrainByNumber"
       => /\ csvData' = csvData
          /\ Len(PlateView') = Len(PlateView)
          /\ \A i \in 1..Len(PlateView) :
               /\ PlateView'[i].id = PlateView[i].id
               /\ PlateView'[i].metadata.order = PlateView[i].metadata.order
               /\ \A well \in DOMAIN PlateView[i].metadata.at :
                    \A f \in Fields \ JoinedFields :
                      PlateView'[i].metadata.at[well][f] =
                        PlateView[i].metadata.at[well][f]]_vars

\* a well with notes has been given the constructs of its strain
C8_JoinedWellWithNotes ==
  /\ op.name = "searchStrainByNumber"
  /\ \E i \in 1..Len(PlateView) :
       /\ PlateView[i].metadata.at[sA1].base_strain = sS1
       /\ PlateView[i].metadata.at[sA1].notes = <<"o", "k">>
       /\ PlateView[i].metadata.at[sA1].negsel = <<"N">>
       /\ PlateView[i].metadata.at[sA1].receptor = <<"R">>

(***************************************************************************)
(* Properties of the import and of the plate collection editor             *)
(***************************************************************************)
\* some of the 96 wells of the plate is not the default record
Usable(plate) ==
  \E well \in CanonicalWells \cap DOMAIN plate.metadata.at :
    plate.metadata.at[well] # DEFAULT_METADATA

\* C9: after an import, (1) no plate of the file whose 96 wells A1..H12
\* are all empty in all seven fields is in the collection; (2) when the
\* file gives at least one other plate, the collection is exactly those
\* plates, in the order of the file, and the current index is 0; (3) when
\* it gives none,
\* as a file with neither a from_block header nor a Block marker does, the
\* collection and the current index are unchanged.
C9_ImportPostProcessing ==
  [][\A name \in DOMAIN SampleFiles :
       (op'.name = "handleFileUpload" /\ op'.file = name)
         => LET usable == SelectSeq(ParsedSamples[name], Usable)
            IN IF usable # <<>>
               THEN /\ PlateView' = usable
                    /\ \A i \in 1..Len(PlateView') : Usable(PlateView'[i])
                    /\ currentPlateIndex' = 0
               ELSE /\ PlateView' = PlateView
                    /\ currentPlateIndex' = currentPlateIndex]_vars

\* C10: deleteCurrentPlate on two plates or more, the current index being
\* i, removes the plate at position i: the other plates keep their order
\* and their metadata, their ids become 1..length-1, and the current index
\* becomes max(0, i - 1).
C10_DeleteRemovesCurrent ==
  [][(op'.name = "deleteCurrentPlate" /\ Len(plates) >= 2)
       => /\ Len(PlateView') = Len(PlateView) - 1
          /\ \A j \in 1..(Len(PlateView) - 1) :
               PlateView'[j] =
                 [id |-> JsNum(j),
                  metadata |-> PlateView[IF j <= currentPlateIndex THEN j
                                         ELSE j + 1].metadata]
          /\ currentPlateIndex' = IF currentPlateIndex > 1
                                  THEN currentPlateIndex - 1 ELSE 0]_vars

\* the last of three different plates was deleted
C10_DeletedLastOfThree ==
  /\ op.name = "deleteCurrentPlate"
  /\ Len(op.ids) = 3
  /\ Len(plates) = 2
  /\ currentPlateIndex = 1
  /\ PlateView[1].metadata # PlateView[2].metadata

\* the sequence without its element at position k (counted from 1)
Without(seq, k) ==
  [j \in 1..(Len(seq) - 1) |-> seq[IF j < k THEN j ELSE j + 1]]

Metadata(view) == [j \in 1..Len(view) |-> view[j].metadata]

\* C11: moveCurrentPlate on two plates or more, the current index being
\* from and the target index to in 0..length-1, puts the plate that was at
\* from at position to; the other plates keep their order, every plate
\* keeps its metadata, the ids become 1..length and the current index
\* becomes to.
C11_MovePutsCurrentAtTarget ==
  [][(/\ op'.name = "moveCurrentPlate"
      /\ Len(plates) >= 2
      /\ targetPlateIndex \in 0..(Len(plates) - 1))
       => /\ Len(PlateView') = Len(PlateView)
          /\ PlateView'[targetPlateIndex + 1].metadata =
               PlateView[currentPlateIndex + 1].metadata
          /\ Without(Metadata(PlateView'), targetPlateIndex + 1) =
               Without(Metadata(PlateView), currentPlateIndex + 1)
          /\ Sequential(PlateIds')
          /\ currentPlateIndex' = targetPlateIndex]_vars

\* the first block of the layout was moved between the second and the third
C11_MovedFirstToMiddle ==
  /\ op.name = "moveCurrentPlate"
  /\ Len(op.ids) = 3
  /\ currentPlateIndex = 1
  /\ targetPlateIndex = 1
  /\ PlateView[1].metadata.at[sA1].base_strain = sS2
  /\ PlateView[2].metadata.at[sA1].base_strain = sS1
  /\ PlateView[3].metadata.at[<<"B", "1">>].base_strain = sS1

\* C12: addNewPlate, the current index being i, inserts one plate at
\* position i + 1 whose 96 wells are all default; the plates that were
\* there keep their order and their metadata, the length grows by one, the
\* ids become 1..length and the current index becomes i + 1.
C12_AddInsertsAfterCurrent ==
  [][op'.name = "addNewPlate"
       => /\ Len(PlateView') = Len(PlateView) + 1
          /\ PlateView'[currentPlateIndex + 2].metadata.at =
               [well \in CanonicalWells |-> DEFAULT_METADATA]
          /\ Without(Metadata(PlateView'), currentPlateIndex + 2) =
               Metadata(PlateView)
          /\ Sequential(PlateIds')
          /\ currentPlateIndex' = currentPlateIndex + 1]_vars

\* a plate was added between the two plates of the imported file
C12_AddedBetweenTwo ==
  /\ op.name = "addNewPlate"
  /\ op.ids = <<JsNum(2), JsNum(5)>>
  /\ currentPlateIndex = 1
  /\ PlateView[1].metadata.at[sA1].base_strain = sS1
  /\ PlateView[2].metadata = initializePlateMetadata
  /\ sZ9 \in DOMAIN PlateView[3].metadata.at

(***************************************************************************)
(* Properties of the strain join                                           *)
(***************************************************************************)
\* the rows of the table whose Strain_Name is the strain
RowsOf(table, strain) ==
  {r \in 1..Len(table) :
     kStrainName \in DOMAIN table[r].at /\ table[r].at[kStrainName] = strain}

\* the cell of the row under the column, empty when the row has none
Cell(row, column) ==
  IF column \in DOMAIN row.at THEN row.at[column] ELSE <<>>

\* what the join makes of a well
Resolved(well, table) ==
  LET rows == RowsOf(table, well.base_strain)
  IN IF well.base_strain = <<>> \/ rows = {} THEN well
     ELSE LET first == CHOOSE r \in rows : \A q \in rows : r <= q
          IN [well EXCEPT !.negsel = Cell(table[first], kConstruct1),
                          !.anchor = Cell(table[first], kConstruct2),
                          !.receptor = Cell(table[first], kConstruct3)]

\* the plates a join of that scope works on
InScope(scope, i) == scope = "all" \/ i = currentPlateIndex + 1

JoinedAsResolved(scope) ==
  /\ Len(PlateView') = Len(PlateView)
  /\ \A i \in 1..Len(PlateView) :
       /\ DOMAIN PlateView'[i].metadata.at = DOMAIN PlateView[i].metadata.at
       /\ \A well \in DOMAIN PlateView[i].metadata.at :
            PlateView'[i].metadata.at[well] =
              IF InScope(scope, i)
              THEN Resolved(PlateView[i].metadata.at[well], csvData)
              ELSE PlateView[i].metadata.at[well]

\* C13: a strain join leaves a well with an empty base_strain as it is;
\* a well whose base_strain is the Strain_Name of some row gets negsel,
\* anchor and receptor from Construct_1, Construct_2 and Construct_3 of
\* the first such row; a well with no such row is left as it is.  The
\* wells joined are those of the current plate or those of all plates,
\* whichever is requested.
C13_JoinInRequestedScope ==
  [][\A scope \in {"current", "all"} :
       op'.name = "searchStrainByNumber" => JoinedAsResolved(scope)]_vars

\* C13, amended: the wells joined are always those of all plates; the
\* rule for a well is as stated.
C13_JoinOfEveryPlate ==
  [][op'.name = "searchStrainByNumber" => JoinedAsResolved("all")]_vars

\* the table has two rows for S1, a short row for S2 and none for S3
C13_FirstRowShortRowNoRow ==
  /\ op.name = "searchStrainByNumber"
  /\ Cardinality(RowsOf(csvData, sS1)) = 2
  /\ Len(PlateView) = 3
  /\ PlateView[1].metadata.at[sA1].base_strain = sS1
  /\ PlateView[1].metadata.at[sA1].negsel = <<"N">>
  /\ PlateView[2].metadata.at[sA1].base_strain = sS2
  /\ PlateView[2].metadata.at[sA1].negsel = <<"N">>
  /\ PlateView[2].metadata.at[sA1].anchor = <<>>
  /\ PlateView[2].metadata.at[<<"A", "2">>].base_strain = sS3
  /\ PlateView[2].metadata.at[<<"A", "2">>].negsel = <<>>

(***************************************************************************)
(* Properties of clearField                                                *)
(***************************************************************************)
\* C14: clearField makes every well of the current plate the default
\* record, whatever field is displayed, and leaves the other plates, the
\* ids and the current index as they are; a clearField right after a
\* clearField changes nothing.
C14_ClearResetsCurrentPlate ==
  [][/\ op'.name = "clearField"
          => /\ Len(PlateView') = Len(PlateView)
             /\ PlateIds' = PlateIds
             /\ currentPlateIndex' = currentPlateIndex
             /\ \A i \in 1..Len(PlateView) :
                  IF i = currentPlateIndex + 1
                  THEN /\ PlateView'[i].metadata.order = PlateView[i].metadata.order
                       /\ PlateView'[i].metadata.at =
                            [well \in DOMAIN PlateView[i].metadata.at |->
                               DEFAULT_METADATA]
                  ELSE PlateView'[i] = PlateView[i]
     /\ (op.name = "clearField" /\ op'.name = "clearField")
          => UNCHANGED <<plates, heap, currentPlateIndex, selectedWells,
                         displayedField, bulkValue, csvData, targetPlateIndex>>]_vars

\* the second of the three imported blocks was cleared while the notes
\* were displayed
C14_ClearedSecondBlock ==
  /\ op.name = "clearField"
  /\ displayedField = "notes"
  /\ Len(PlateView) = 3
  /\ currentPlateIndex = 1
  /\ PlateView[1].metadata.at[sA1].base_strain = sS1
  /\ PlateView[2].metadata.at = [well \in CanonicalWells |-> DEFAULT_METADATA]
  /\ PlateView[3].metadata.at[<<"B", "1">>].base_strain = sS1

(***************************************************************************)
(* Properties of the old format import                                     *)
(***************************************************************************)
\* the rows of the file that have a plate id and a well id
NamedRows(rows) ==
  {r \in 1..Len(rows) :
     RowGet(rows[r], kFromBlock) # <<>> /\ RowGet(rows[r], kWell) # <<>>}

\* the rows of the plate, and among them those of the well
RowsOfPlate(rows, block) ==
  {r \in NamedRows(rows) : RowGet(rows[r], kFromBlock) = block}

RowsOfWell(rows, block, well) ==
  {r \in RowsOfPlate(rows, block) : RowGet(rows[r], kWell) = well}

\* the wells of the plate: the 96 default wells, each well that rows name
\* holding the seven fields of the last of them
WellsOfPlate(rows, block) ==
  [well \in CanonicalWells
          \cup {RowGet(rows[r], kWell) : r \in RowsOfPlate(rows, block)} |->
     LET named == RowsOfWell(rows, block, well)
     IN IF named = {} THEN DEFAULT_METADATA
        ELSE LET last == CHOOSE r \in named : \A q \in named : r >= q
             IN [f \in Fields |-> RowGet(rows[last], FieldColumn[f])]]

\* the plates of the file that have a well with a field that is not empty
PlatesOfRows(rows) ==
  {plate \in {[id |-> parseInt(RowGet(rows[r], kFromBlock)),
               wells |-> WellsOfPlate(rows, RowGet(rows[r], kFromBlock))] :
              r \in NamedRows(rows)} :
     \E well \in DOMAIN plate.wells : plate.wells[well] # DEFAULT_METADATA}

\* C15: the old format import gives one plate for each from_block value
\* that has a well with a field that is not empty; the plate is 96 default
\* wells, each well named by a row holding the seven fields of the last
\* row that names it; rows without a plate id or without a well id count
\* for nothing.  The single row 1,A1,StrainX,,,,,, gives one plate with id
\* 1 whose A1 has base_strain StrainX and whose other 95 wells are default.
C15_LegacyImport ==
  [][\A name \in LegacyNames :
       (op'.name = "handleFileUpload" /\ op'.file = name)
         => LET expected == PlatesOfRows(PapaParseHeader(SampleFiles[name]))
            IN expected # {}
                 => /\ Len(PlateView') = Cardinality(expected)
                    /\ {[id |-> PlateView'[i].id,
                         wells |-> PlateView'[i].metadata.at] :
                          i \in 1..Len(PlateView')} = expected]_vars

(***************************************************************************)
(* Properties of the new format import                                     *)
(***************************************************************************)
\* the rows that are Block markers
Markers(rows) ==
  {r \in 1..Len(rows) : rows[r][1] # <<>> /\ StartsWith(rows[r][1], kBlock)}

\* the rows of the block a marker opens whose first cell is the letter
LetterRows(rows, marker, letter) ==
  {r \in (marker + 1)..Len(rows) :
     /\ rows[r][1] = <<letter>>
     /\ \A q \in (marker + 1)..r : q \notin Markers(rows)}

\* the cell of the row that follows its first cell at distance col
Following(row, col, trimmed) ==
  IF col + 1 > Len(row) THEN <<>>
  ELSE IF trimmed THEN Trim(row[col + 1]) ELSE row[col + 1]

\* the well of the block: default, or with the base_strain the last row of
\* its letter gives
WellOfBlock(rows, marker, well, trimmed) ==
  LET col == CHOOSE c \in 1..NumCols : well = <<well[1]>> \o NatToStr(c)
      given == LetterRows(rows, marker, well[1])
  IN IF given = {} THEN DEFAULT_METADATA
     ELSE LET last == CHOOSE r \in given : \A q \in given : r >= q
          IN [DEFAULT_METADATA EXCEPT
                !.base_strain = Following(rows[last], col, trimmed)]

\* the plates of the file, one for each marker, in the order of the markers
PlatesOfBlocks(rows, trimmed) ==
  [k \in 1..Cardinality(Markers(rows)) |->
     LET marker == CHOOSE r \in Markers(rows) :
                     Cardinality({q \in Markers(rows) : q < r}) = k - 1
     IN [id |-> JsNum(DigitsValue(SubSeq(rows[marker][1], Len(kBlock) + 2,
                                         Len(rows[marker][1])), 0)),
         wells |-> [well \in CanonicalWells |->
                      WellOfBlock(rows, marker, well, trimmed)]]]

HasStrain(plate) ==
  \E well \in DOMAIN plate.wells : plate.wells[well] # DEFAULT_METADATA

\* the import of a new format file stores the plates of its blocks that
\* have a strain, when there is one
StoresBlocks(name, trimmed) ==
  (op'.name = "handleFileUpload" /\ op'.file = name)
    => LET stated == SelectSeq(PlatesOfBlocks(PapaParse(SampleFiles[name]), trimmed),
                               HasStrain)
       IN IF stated = <<>> THEN PlateView' = PlateView
          ELSE [i \in 1..Len(PlateView') |->
                  [id |-> PlateView'[i].id,
                   wells |-> PlateView'[i].metadata.at]] = stated

\* C16: in the new format each row whose first cell starts with Block
\* opens a plate whose id is the number after the marker, the plates come
\* in the order of their markers, one for each marker; a row whose first
\* cell is a letter A..H gives the wells <letter>1..<letter>12 of the open
\* plate its 12 following cells as base_strain and leaves their six other
\* fields default; rows before the first marker and rows with another
\* first cell change nothing.
C16_LayoutImport ==
  [][\A name \in LayoutNames : StoresBlocks(name, FALSE)]_vars

\* C16, amended: as stated, the base_strain of a well being the cell with
\* the white space around it removed, and empty when the row has no such
\* cell.
C16_LayoutImportTrimmed ==
  [][\A name \in LayoutNames : StoresBlocks(name, TRUE)]_vars

\* the three blocks were imported; the cell " S1" of the third made the
\* base_strain S1
C16_ImportedThreeBlocks ==
  /\ op.name = "handleFileUpload"
  /\ op.file = "layout"
  /\ PlateIds = <<JsNum(1), JsNum(2), JsNum(3)>>
  /\ PlateView[1].metadata.at[<<"A", "2">>].base_strain = sS2
  /\ PlateView[2].metadata.at[<<"A", "2">>].base_strain = sS3
  /\ PlateView[3].metadata.at[<<"B", "1">>].base_strain = sS1
  /\ PlateView[3].metadata.at[sA1] = DEFAULT_METADATA

(***************************************************************************)
(* Properties of exportCSV                                                 *)
(***************************************************************************)
\* the seven field columns of a well: all empty exactly when its seven
\* fields are empty, its values in the order of the columns otherwise
ColumnsOf(data) ==
  IF \A f \in Fields : data[f] = <<>>
  THEN [i \in 1..7 |-> kEmpty]
  ELSE <<data.base_strain, data.receptor, data.anchor, data.nanobody,
         data.negsel, data.dilution, data.notes>>

\* the line of the well in row r, column c of the plate at position p
LineOf(view, p, r, c) ==
  Join(<<NumToStr(view[p].id), WellId(r - 1, c)>>
         \o ColumnsOf(view[p].metadata.at[WellId(r - 1, c)]), ",")

\* the file has the header, then a line for each plate and well, plate by
\* plate and row-major within a plate
ExportedAsStated(view, lines) ==
  /\ Len(lines) = 1 + NumRows * NumCols * Len(view)
  /\ lines[1] = csvHeader
  /\ \A p \in 1..Len(view) : \A r \in 1..NumRows : \A c \in 1..NumCols :
       lines[1 + NumRows * NumCols * (p - 1) + NumCols * (r - 1) + c]
         = LineOf(view, p, r, c)

\* C17: exportCSV writes the header line and then exactly one line for
\* each plate and well, 96 x length lines, by plate position and row-major
\* A1..A12, ..., H1..H12 within a plate; a line starts with the plate id and
\* the well id; its seven field columns are all the literal empty exactly
\* when the seven fields of the well are empty, and the seven values in
\* the order base_strain, receptor, anchor, nanobody, negsel, dilution,
\* notes otherwise; the export does not change the plate collection.
C17_ExportOneLinePerWell ==
  [][op'.name = "exportCSV"
       => /\ plates' = plates /\ heap' = heap
          /\ ExportedAsStated(PlateView, csvContent(PlateView))]_vars

(***************************************************************************)
(* Properties of the reference table                                       *)
(***************************************************************************)
\* the ReferenceRow of a row under the header names
ReferenceRow(names, row) ==
  [order |-> names,
   at |-> [key \in {names[i] : i \in 1..Len(names)} |->
             LET i == CHOOSE j \in 1..Len(names) : names[j] = key
             IN IF i <= Len(row) THEN row[i] ELSE <<>>]]

HasCell(row) == \E i \in 1..Len(row) : row[i] # <<>>

\* the table of the rows from the third on that have a cell, under the
\* names of the second
TableFromThirdRow(rawData) ==
  LET names == UniqueHeaders(EmptyObj,
                             [i \in 1..Len(rawData[2]) |-> NormalizeHeader(rawData[2][i])],
                             1)
      kept == SelectSeq(SubSeq(rawData, 3, Len(rawData)), HasCell)
  IN [i \in 1..Len(kept) |-> ReferenceRow(names, kept[i])]

\* C18: handleCsvUpload of a file of two rows or more discards row 1, uses
\* row 2 as the header only, and loads one ReferenceRow for each row from
\* row 3 on that has a non-empty cell, in input order, and no other
\* record: the header row is never a ReferenceRow; missing trailing cells
\* are the empty string.
C18_TableFromThirdRow ==
  [][\A name \in DOMAIN ReferenceFiles :
       (/\ op'.name = "handleCsvUpload"
        /\ op'.file = name
        /\ Len(PapaParse(ReferenceFiles[name])) >= 2)
         => csvData' = TableFromThirdRow(PapaParse(ReferenceFiles[name]))]_vars

Keys(row) == {row.order[i] : i \in 1..Len(row.order)}

\* C19: for every header row, tokens that already end in a numeric suffix
\* and repeated tokens included, the normalized and de-duplicated header
\* names are pairwise distinct, so that every column of a reference row
\* is reachable under its own key: a row has as many keys as the header
\* row has tokens, and the row of the cells 1, 2, ... has each cell under
\* a key.
C19_HeaderNamesDistinct ==
  [][\A name \in HeaderNames :
       (op'.name = "handleCsvUpload" /\ op'.file = name)
         => LET headers == HeadersNamed(name)
            IN /\ csvData' # <<>>
               /\ \A r \in 1..Len(csvData') :
                    Cardinality(Keys(csvData'[r])) = Len(headers)
               /\ LET last == csvData'[Len(csvData')]
                  IN \A i \in 1..Len(headers) :
                       \E key \in Keys(last) : last.at[key] = NatToStr(i)]_vars

(***************************************************************************)
(* Properties of exportPDF                                                 *)
(***************************************************************************)
\* C20: exportPDF is non-reentrant: while a batch is in flight, from its
\* start to the step that restores the active index, no second batch
\* starts, under any interleaving of the user's commands with the awaits
\* of the batch.
C20_NoSecondBatch ==
  [][op'.name = "exportPDF" => batches = <<>>]_vars

PlateChanging ==
  {"addNewPlate", "copyCurrentPlate", "deleteCurrentPlate", "moveCurrentPlate",
   "nextPlate", "prevPlate", "handleFileUpload"}

\* the step made another plate the active one, or replaced the collection
ActivePlateChanged ==
  \/ currentPlateIndex' # currentPlateIndex
  \/ PlateView' # PlateView

\* C22: a selection is never carried from one plate to another: every
\* operation that changes which plate is active (add, duplicate, delete,
\* move, next and previous plate, an import that replaces the collection)
\* leaves the set of selected wells empty.
C22_SelectionNotCarried ==
  [][(op'.name \in PlateChanging /\ ActivePlateChanged) => selectedWells' = {}]_vars

(***************************************************************************)
(* Properties of the batch export among other commands                     *)
(***************************************************************************)
BatchSteps == {"exportPDF", "resumePlate", "resumeField", "resumeCanvas"}

\* the index designates a plate of the collection
ValidIndex(index, collection) == 0 <= index /\ index < Len(collection)

\* the active plate is the one that was active when the batch started
RestoredTo(batch) ==
  /\ ValidIndex(currentPlateIndex', plates')
  /\ PlateView'[currentPlateIndex' + 1].metadata
       = batch.plates[batch.originalPlateIndex + 1].metadata

\* C23: while a batch export is in flight and delete, add, move or an
\* import interleave with its awaits, the active index the batch sets is
\* always a valid index of the current collection; when the batch ends,
\* the index it restores is valid and designates the plate that was
\* active when the batch started; the batch never changes a plate id or
\* the metadata.
C23_BatchKeepsActivePlate ==
  [][op'.name \in BatchSteps
       => /\ ValidIndex(currentPlateIndex', plates')
          /\ Len(batches') < Len(batches)
               => \E k \in 1..Len(batches) :
                     batches' = Finished(k) /\ RestoredTo(batches[k])
          /\ PlateView' = PlateView]_vars

====
